---- MODULE Spec2Model ----
(***************************************************************************)
(* winit-async: `run` drives a user future from the winit event loop       *)
(* (src/src/lib.rs).  The loop thread executes the closure passed to       *)
(* `event_loop.run` once per host event; any thread may call               *)
(* `ProxyWaker::wake_by_ref`.  Each numbered statement group of the        *)
(* closure and of `wake_by_ref` is one action, so that the two interleave  *)
(* the way the threads do.                                                 *)
(***************************************************************************)
EXTENDS Naturals, Sequences, FiniteSets

\* ------------------------------------------------------------- bounds
\* Number of threads that hold a clone of the waker.
NumWakers == 2
\* Number of host events (other than wake markers and the final
\* LoopDestroyed) the host loop delivers to an arbitrary task in one run.
MaxEvents == 2
\* The same for the task of examples/window.rs.
MaxWindowEvents == 3
\* Number of wake() calls made in one run.
MaxWakeCalls == 2

Wakers == 1..NumWakers

\* ------------------------------------------------------------- events
\* Event::UserEvent(()): the wake marker sent through the proxy.
UserEvent == "UserEvent"

\* The host events the loop may deliver while it runs.  CloseW / CloseX are
\* WindowEvent::CloseRequested for the example's window and for another one,
\* ScaleFactorChanged carries a borrowed `&mut PhysicalSize`.
RealEvents == {"Other", "CloseX", "CloseW", "ScaleFactorChanged"}

LoopDestroyed == "LoopDestroyed"

\* Option::None of `Event::to_static`.
None == "None"

\* Mutant of ToStatic: every event has an owned form.
ToStaticAlways(e) == e

\* Event::to_static(): the owned form of an event, None when the event holds
\* a reference.
ToStatic(e) == IF e = "ScaleFactorChanged" THEN None ELSE e

\* The futures `run` is instantiated with: an arbitrary one, and the one of
\* examples/window.rs.
TaskKinds == {"any", "window"}

\* The host events delivered to a task of kind k: only the window task tells
\* a close request of its own window from one of another window.
EventsFor(k) == IF k = "window" THEN RealEvents ELSE RealEvents \ {"CloseX"}

\* The number of host events delivered to a task of kind k.
EventBound(k) == IF k = "window" THEN MaxWindowEvents ELSE MaxEvents

VARIABLES
    state,        \* State: "Init" | "Running" | "Done"
    will_poll,    \* the shared AtomicBool
    control_flow, \* *control_flow: "Poll" | "Wait" | "Exit"
    lpc,          \* position of the loop thread inside the closure
    event,        \* the closure's `event` argument
    hostState,    \* the host loop: "running" | "exiting" | "destroyed" | "closed"
    pending,      \* wake markers sent through the proxy and not yet delivered
    chan,         \* the unbounded channel's queue
    rxAlive,      \* the Receiver (inside Events) exists
    txAlive,      \* the Sender exists
    listener,     \* the Receiver has registered the task's waker
    consumed,     \* what the task has pulled from Events, in order
    eos,          \* Events has yielded None (end of stream) to the task
    taskKind,     \* which future `callback` returned
    waker_out,    \* the task has been handed the waker
    wpc,          \* position of each waking thread inside wake_by_ref
    lock,         \* holders of the `proxy` mutex (empty or one thread)
    poisoned,     \* a holder of the mutex panicked while holding it
    \* history
    delivered,    \* the events other than wake markers the closure was called
                  \* with, in order
    nReal,        \* number of RealEvents delivered
    nWakeCalls,   \* number of wake() calls begun
    polledThisCb, \* the current or last closure call has called future.poll
    sendResult,   \* try_send's result in the current or last closure call
    initCalls,    \* number of calls of `callback`
    exitReqs,     \* number of assignments of ControlFlow::Exit
    unserved,     \* a wake() call began after the latest poll started
    batchCalls,   \* wake() calls begun since all waking threads were last idle
                  \* (a batch), counted while the batch is clean
    batchInj,     \* wake markers those calls injected
    batchClean    \* will_poll was false and the loop running throughout the batch

loopVars == <<state, will_poll, control_flow, lpc, event, hostState>>
chanVars == <<chan, rxAlive, txAlive, listener, consumed, eos>>
wakeVars == <<wpc, lock, poisoned, nWakeCalls>>
batchVars == <<batchCalls, batchInj, batchClean>>
histVars ==
    <<delivered, nReal, polledThisCb, sendResult, initCalls, exitReqs>>

vars == <<state, will_poll, control_flow, lpc, event, hostState, pending,
          chan, rxAlive, txAlive, listener, consumed, eos, taskKind,
          waker_out,
          wpc, lock, poisoned, delivered, nReal, nWakeCalls, polledThisCb,
          sendResult, initCalls, exitReqs, unserved,
          batchCalls, batchInj, batchClean>>

\* ------------------------------------------------------------- helpers
AllIdle == \A t \in Wakers : wpc[t] = "idle"

\* proxy.send_event succeeds until the event loop is gone.
HostAlive == hostState # "closed"

\* What the host loop does with *control_flow when the closure returns: Exit
\* is sticky, and the loop is gone once the LoopDestroyed call has returned.
HostAfterReturn(hs, cf) ==
    IF hs = "destroyed" THEN "closed"
    ELSE IF hs = "exiting" \/ cf = "Exit" THEN "exiting"
    ELSE hs

\* The window task has seen its close request.
SeenClose == consumed # <<>> /\ consumed[Len(consumed)] = "CloseW"

\* ------------------------------------------------------------- Init
Init ==
    /\ state = "Init"
    /\ will_poll = FALSE
    /\ control_flow = "Poll"
    /\ lpc = "idle"
    /\ event = None
    /\ hostState = "running"
    /\ pending = 0
    /\ chan = <<>>
    /\ rxAlive = FALSE
    /\ txAlive = FALSE
    /\ listener = FALSE
    /\ consumed = <<>>
    /\ eos = FALSE
    /\ taskKind \in TaskKinds
    /\ waker_out = FALSE
    /\ wpc = [t \in Wakers |-> "idle"]
    /\ lock = {}
    /\ poisoned = FALSE
    /\ delivered = <<>>
    /\ nReal = 0
    /\ nWakeCalls = 0
    /\ polledThisCb = FALSE
    /\ sendResult = "none"
    /\ initCalls = 0
    /\ exitReqs = 0
    /\ unserved = FALSE
    /\ batchCalls = 0
    /\ batchInj = 0
    /\ batchClean = FALSE

\* ------------------------------------------------------------- code decisions
\* Mutant of EntryControlFlow: the closure starts with the spinning policy.
EntryControlFlowPoll == "Poll"

\* lib.rs:49, the wait policy every closure call starts with.
EntryControlFlow == "Wait"

\* Mutant of EntryWillPoll: will_poll is not set on entry.
EntryWillPollUnset == FALSE

\* lib.rs:50, the value stored in will_poll when the closure is entered.
EntryWillPoll == TRUE

\* Mutant of PollWillPoll: will_poll is left set during the poll.
PollWillPollStale == TRUE

\* lib.rs:83, the value stored in will_poll right before the poll.
PollWillPoll == FALSE

\* Mutant of IsInit: every closure call takes the Init branch.
IsInitAlways(s) == TRUE

\* Mutant of IsInit: the Init branch is also taken in State::Running.
IsInitOrRunning(s) == s # "Done"

\* lib.rs:52, `matches!(state, State::Init(_))`.
IsInit(s) == s = "Init"

\* Mutant of IsDone: the closure does not return in State::Done.
IsNeverDone(s) == FALSE

\* lib.rs:64, `State::Done => return`.
IsDone(s) == s = "Done"

\* Mutant of ShouldEnqueue: the wake marker is forwarded too.
EnqueueAll(e) == TRUE

\* lib.rs:67, `event != Event::UserEvent(())`.
ShouldEnqueue(e) == e # UserEvent

\* lib.rs:72-78, tx.try_send on the unbounded channel: "Ok" appends, "Closed"
\* (no Receiver left) is ignored.  "Full" cannot be returned by an unbounded
\* channel.
TrySend(alive) == IF alive THEN "Ok" ELSE "Closed"

\* Mutant of IsFatal: a closed channel is fatal too.
IsFatalUnlessOk(r) == r # "Ok"

\* lib.rs:73-77, the try_send results the closure does not survive: Closed is
\* ignored, Full is `unreachable!`.
IsFatal(r) == r = "Full"

\* Mutant of PullResult: an empty queue ends the stream.
PullResultEndsWhenEmpty(q, tx) == IF q # <<>> THEN "Some" ELSE "None"

\* lib.rs:19-21, Events::poll_next forwards Receiver::poll_next: the head of
\* the queue, else Pending while a Sender exists, else None.
PullResult(q, tx) ==
    IF q # <<>> THEN "Some" ELSE IF tx THEN "Pending" ELSE "None"

\* Mutant of ReadyControlFlow: completion does not request exit.
ReadyControlFlowWait == "Wait"

\* lib.rs:87, the wait policy chosen when the future is ready.
ReadyControlFlow == "Exit"

\* Mutant of WakeSuppressed: will_poll is not consulted.
WakeNeverSuppressed(wp) == FALSE

\* lib.rs:107, `self.will_poll.load(..)` decides whether wake returns at once.
WakeSuppressed(wp) == wp

\* Mutant of TryLockOk: the mutex is never acquired.
TryLockNever(l) == FALSE

\* lib.rs:112, `self.proxy.try_lock()` succeeds iff nobody holds the mutex.
TryLockOk(l) == l = {}

\* Mutant of PoisonFatal: a poisoned mutex is treated like a free or held one.
PoisonIgnored(p) == FALSE

\* lib.rs:121, `Err(TryLockError::Poisoned(e)) => panic!(..)`.
PoisonFatal(p) == p

\* Mutant of SendErrFatal: the result of send_event is unwrapped.
SendErrUnwrapped(alive) == ~alive

\* lib.rs:116, `let _ = proxy.send_event(())`: the error of a closed loop
\* does not make wake fail.
SendErrFatal(alive) == FALSE

\* batchClean after a step of the loop thread that leaves will_poll = wp and
\* the host loop in hs.
BatchCleanNext(wp, hs) ==
    IF AllIdle THEN batchClean ELSE batchClean /\ ~wp /\ hs = "running"

\* The batch history after such a step: the counts are kept only while the
\* batch is clean.
BatchStep(wp, hs) ==
    /\ batchClean' = BatchCleanNext(wp, hs)
    /\ batchCalls' = IF batchClean' THEN batchCalls ELSE 0
    /\ batchInj' = IF batchClean' THEN batchInj ELSE 0

\* ------------------------------------------------------------- host loop
\* lib.rs:48-50, the host loop calls the closure with event e, and the closure
\* stores its wait policy and will_poll = true.
Enter(e) ==
    /\ lpc = "idle"
    /\ lpc' = "init"
    /\ event' = e
    /\ delivered' = IF e = UserEvent THEN delivered ELSE Append(delivered, e)
    /\ polledThisCb' = FALSE
    /\ sendResult' = "none"
    /\ control_flow' = EntryControlFlow
    /\ will_poll' = EntryWillPoll
    /\ BatchStep(will_poll', hostState)
    /\ UNCHANGED <<state, chanVars, taskKind, waker_out, wakeVars, initCalls,
                   exitReqs, unserved>>

HostDeliverEvent(e) ==
    /\ hostState \in {"running", "exiting"}
    /\ nReal < EventBound(taskKind)
    /\ e \in EventsFor(taskKind)
    /\ Enter(e)
    /\ nReal' = nReal + 1
    /\ UNCHANGED <<hostState, pending>>

HostDeliverWake ==
    /\ hostState \in {"running", "exiting"}
    /\ pending > 0
    /\ Enter(UserEvent)
    /\ pending' = pending - 1
    /\ UNCHANGED <<hostState, nReal>>

\* The loop ends after Exit was requested, or because the application is
\* terminated from outside.
HostDeliverLoopDestroyed ==
    /\ hostState \in {"running", "exiting"}
    /\ Enter(LoopDestroyed)
    /\ hostState' = "destroyed"
    /\ UNCHANGED <<pending, nReal>>

\* ------------------------------------------------------------- the closure
\* lib.rs:52-65: the first call takes the callback out of State::Init, makes
\* the channel and calls the callback with its Receiver; a call in State::Done
\* returns.
CbInit ==
    /\ lpc = "init"
    /\ IF IsInit(state)
         THEN /\ state' = "Running"
              /\ initCalls' = initCalls + 1
              /\ chan' = <<>>
              /\ rxAlive' = TRUE
              /\ txAlive' = TRUE
         ELSE UNCHANGED <<state, initCalls, chan, rxAlive, txAlive>>
    /\ IF IsDone(state')
         THEN /\ lpc' = "idle"
              /\ hostState' = HostAfterReturn(hostState, control_flow)
         ELSE /\ lpc' = "enqueue"
              /\ hostState' = hostState
    /\ BatchStep(will_poll, hostState')
    /\ UNCHANGED <<will_poll, control_flow, event, pending, listener,
                   consumed, eos, taskKind, waker_out, wakeVars, delivered,
                   nReal, polledThisCb, sendResult, exitReqs, unserved>>

\* lib.rs:67-79.  `to_static().unwrap()` panics on None, which ends the host
\* loop.  A successful send notifies the Receiver's listener, which calls the
\* registered waker (wake_by_ref, lib.rs:106-123) on this thread.
CbEnqueue ==
    /\ lpc = "enqueue"
    /\ IF ~ShouldEnqueue(event)
         THEN /\ lpc' = "clear"
              /\ UNCHANGED <<chan, listener, sendResult, hostState, pending>>
         ELSE IF ToStatic(event) = None
         THEN /\ lpc' = "panicked"
              /\ hostState' = "closed"
              /\ UNCHANGED <<chan, listener, sendResult, pending>>
         ELSE /\ sendResult' = TrySend(rxAlive)
              /\ chan' = IF sendResult' = "Ok"
                           THEN Append(chan, ToStatic(event)) ELSE chan
              /\ listener' = IF sendResult' = "Ok" THEN FALSE ELSE listener
              /\ LET woken == /\ sendResult' = "Ok" /\ listener
                              /\ ~WakeSuppressed(will_poll)
                     sent  == /\ woken /\ ~PoisonFatal(poisoned)
                              /\ TryLockOk(lock) /\ HostAlive
                     fatal == \/ IsFatal(sendResult')
                              \/ woken /\ PoisonFatal(poisoned)
                 IN  /\ pending' = IF sent THEN pending + 1 ELSE pending
                     /\ lpc' = IF fatal THEN "panicked" ELSE "clear"
                     /\ hostState' = IF fatal THEN "closed" ELSE hostState
    /\ BatchStep(will_poll, hostState')
    /\ UNCHANGED <<state, will_poll, control_flow, event, rxAlive, txAlive,
                   consumed, eos, taskKind, waker_out, wakeVars, delivered,
                   nReal, polledThisCb, initCalls, exitReqs, unserved>>

\* lib.rs:83-85: will_poll = false is stored and future.poll is entered with
\* a Context holding the waker.
PollStart ==
    /\ lpc = "clear"
    /\ will_poll' = PollWillPoll
    /\ lpc' = "polling"
    /\ polledThisCb' = TRUE
    /\ waker_out' = TRUE
    /\ unserved' = FALSE
    /\ UNCHANGED <<state, control_flow, event, hostState, pending, chanVars,
                   taskKind, wakeVars, delivered, nReal, sendResult,
                   initCalls, exitReqs, batchVars>>

\* ------------------------------------------------------------- the task
\* lib.rs:19-21, Events::poll_next inside the poll: the next queued event;
\* on an empty queue the waker is registered, or the stream ends.  The window
\* task stops pulling at its close request or at the end of the stream
\* (window.rs:16-26).
TaskPull ==
    /\ lpc = "polling"
    /\ rxAlive
    /\ taskKind = "window" => (~SeenClose /\ ~eos)
    /\ LET r == PullResult(chan, txAlive)
       IN  /\ consumed' = IF r = "Some" THEN Append(consumed, Head(chan))
                          ELSE consumed
           /\ chan' = IF r = "Some" THEN Tail(chan) ELSE chan
           /\ listener' = IF r = "Pending" THEN TRUE ELSE listener
           /\ eos' = IF r = "None" THEN TRUE ELSE eos
    /\ UNCHANGED <<loopVars, pending, rxAlive, txAlive, taskKind, waker_out,
                   wakeVars, histVars, unserved, batchVars>>

\* An arbitrary task may drop its Events; the channel is then closed.
TaskDropRx ==
    /\ lpc = "polling"
    /\ taskKind = "any"
    /\ rxAlive
    /\ rxAlive' = FALSE
    /\ listener' = FALSE
    /\ UNCHANGED <<loopVars, pending, chan, txAlive, consumed, eos, taskKind,
                   waker_out, wakeVars, histVars, unserved, batchVars>>

\* lib.rs:90, Poll::Pending: the closure returns.  The window task suspends
\* only in `events.next().await` on an empty queue.
PollPending ==
    /\ lpc = "polling"
    /\ taskKind = "window" => (listener /\ ~SeenClose)
    /\ lpc' = "idle"
    /\ hostState' = HostAfterReturn(hostState, control_flow)
    /\ BatchStep(will_poll, hostState')
    /\ UNCHANGED <<state, will_poll, control_flow, event, pending, chanVars,
                   taskKind, waker_out, wakeVars, histVars,
                   unserved>>

\* lib.rs:86-89, Poll::Ready: exit is requested and the old state (future,
\* with its Events, and Sender) is dropped.  The window task completes only
\* at its close request.
PollReady ==
    /\ lpc = "polling"
    /\ taskKind = "window" => (SeenClose \/ eos)
    /\ control_flow' = ReadyControlFlow
    /\ exitReqs' = IF ReadyControlFlow = "Exit" THEN exitReqs + 1 ELSE exitReqs
    /\ state' = "Done"
    /\ rxAlive' = FALSE
    /\ txAlive' = FALSE
    /\ listener' = FALSE
    /\ lpc' = "idle"
    /\ hostState' = HostAfterReturn(hostState, control_flow')
    /\ BatchStep(will_poll, hostState')
    /\ UNCHANGED <<will_poll, event, pending, chan, consumed, eos, taskKind,
                   waker_out, wakeVars, delivered, nReal, polledThisCb,
                   sendResult, initCalls, unserved>>

\* ------------------------------------------------------------- wake_by_ref
\* lib.rs:106, a thread holding the waker calls wake.  The threads are
\* interchangeable: a new call runs on the first thread that is not in a call.
WakeBegin(t) ==
    /\ waker_out
    /\ wpc[t] = "idle"
    /\ \A u \in Wakers : u < t => wpc[u] # "idle"
    /\ nWakeCalls < MaxWakeCalls
    /\ nWakeCalls' = nWakeCalls + 1
    /\ wpc' = [wpc EXCEPT ![t] = "load"]
    /\ unserved' = TRUE
    /\ IF AllIdle
         THEN /\ batchClean' = (~will_poll /\ hostState = "running")
              /\ batchCalls' = IF batchClean' THEN 1 ELSE 0
              /\ batchInj' = 0
         ELSE /\ batchCalls' = IF batchClean THEN batchCalls + 1 ELSE 0
              /\ UNCHANGED <<batchInj, batchClean>>
    /\ UNCHANGED <<loopVars, pending, chanVars, taskKind, waker_out, lock,
                   poisoned, histVars>>

\* lib.rs:107-110
WakeLoad(t) ==
    /\ wpc[t] = "load"
    /\ wpc' = [wpc EXCEPT ![t] = IF WakeSuppressed(will_poll)
                                   THEN "idle" ELSE "trylock"]
    /\ UNCHANGED <<loopVars, pending, chanVars, taskKind, waker_out, lock,
                   poisoned, nWakeCalls, histVars, unserved, batchVars>>

\* Mutant of WakeTryLock: `lock()` in place of `try_lock()`, the thread waits
\* for the mutex.
WakeLock(t) ==
    /\ wpc[t] = "trylock"
    /\ lock = {}
    /\ lock' = lock \cup {t}
    /\ wpc' = [wpc EXCEPT ![t] = "send"]
    /\ UNCHANGED <<loopVars, pending, chanVars, taskKind, waker_out,
                   poisoned, nWakeCalls, histVars, unserved, batchVars>>

\* lib.rs:112-121: Ok takes the mutex, WouldBlock returns, Poisoned panics.
WakeTryLock(t) ==
    /\ wpc[t] = "trylock"
    /\ IF PoisonFatal(poisoned)
         THEN /\ lock' = lock
              /\ wpc' = [wpc EXCEPT ![t] = "panicked"]
         ELSE IF TryLockOk(lock)
         THEN /\ lock' = lock \cup {t}
              /\ wpc' = [wpc EXCEPT ![t] = "send"]
         ELSE /\ lock' = lock
              /\ wpc' = [wpc EXCEPT ![t] = "idle"]
    /\ UNCHANGED <<loopVars, pending, chanVars, taskKind, waker_out,
                   poisoned, nWakeCalls, histVars, unserved, batchVars>>

\* lib.rs:116, the error of a closed loop is ignored.
WakeSend(t) ==
    /\ wpc[t] = "send"
    /\ IF SendErrFatal(HostAlive)
         THEN /\ wpc' = [wpc EXCEPT ![t] = "panicked"]
              /\ lock' = lock \ {t}
              /\ poisoned' = TRUE
         ELSE /\ wpc' = [wpc EXCEPT ![t] = "unlock"]
              /\ UNCHANGED <<lock, poisoned>>
    /\ IF HostAlive
         THEN /\ pending' = pending + 1
              /\ batchInj' = IF batchClean THEN batchInj + 1 ELSE 0
         ELSE UNCHANGED <<pending, batchInj>>
    /\ UNCHANGED <<loopVars, chanVars, taskKind, waker_out, nWakeCalls,
                   histVars, unserved, batchCalls, batchClean>>

\* lib.rs:117, the MutexGuard is dropped at the end of the match arm.
WakeUnlock(t) ==
    /\ wpc[t] = "unlock"
    /\ wpc' = [wpc EXCEPT ![t] = "idle"]
    /\ lock' = lock \ {t}
    /\ UNCHANGED <<loopVars, pending, chanVars, taskKind, waker_out,
                   poisoned, nWakeCalls, histVars, unserved, batchVars>>

\* lib.rs:113-117, the holder of the MutexGuard panics inside send_event: the
\* guard is dropped while unwinding, which poisons the mutex.
HolderFails(t) ==
    /\ wpc[t] = "send"
    /\ wpc' = [wpc EXCEPT ![t] = "panicked"]
    /\ lock' = lock \ {t}
    /\ poisoned' = TRUE
    /\ UNCHANGED <<loopVars, pending, chanVars, taskKind, waker_out,
                   nWakeCalls, histVars, unserved, batchVars>>

\* ------------------------------------------------------------- specification
Next ==
    \/ \E e \in RealEvents : HostDeliverEvent(e)
    \/ HostDeliverWake
    \/ HostDeliverLoopDestroyed
    \/ CbInit
    \/ CbEnqueue
    \/ PollStart
    \/ TaskPull
    \/ TaskDropRx
    \/ PollPending
    \/ PollReady
    \/ \E t \in Wakers : WakeBegin(t)
    \/ \E t \in Wakers : WakeLoad(t)
    \/ \E t \in Wakers : WakeTryLock(t)
    \/ \E t \in Wakers : WakeSend(t)
    \/ \E t \in Wakers : WakeUnlock(t)

Spec == Init /\ [][Next]_vars

\* The program with a send_event that may panic.
NextPoison == Next \/ \E t \in Wakers : HolderFails(t)

SpecPoison == Init /\ [][NextPoison]_vars

TypeOK ==
    /\ state \in {"Init", "Running", "Done"}
    /\ will_poll \in BOOLEAN
    /\ control_flow \in {"Poll", "Wait", "Exit"}
    /\ lpc \in {"idle", "init", "enqueue", "clear", "polling", "panicked"}
    /\ hostState \in {"running", "exiting", "destroyed", "closed"}
    /\ Cardinality(lock) <= 1
    /\ poisoned \in BOOLEAN
    /\ eos \in BOOLEAN
    /\ \A t \in Wakers :
         wpc[t] \in {"idle", "load", "trylock", "send", "unlock", "panicked"}

\* ------------------------------------------------------------- claims
\* The events the closure has been called with and whose enqueue step
\* (lib.rs:67-79) is over.
PastEnqueue ==
    IF lpc \in {"init", "enqueue"} /\ event # UserEvent
      THEN SubSeq(delivered, 1, Len(delivered) - 1)
      ELSE delivered

\* C1: while the task runs and holds its stream, the events it has pulled
\* followed by the events still queued are exactly the events other than wake
\* markers the closure has been called with, in delivery order: none is lost,
\* reordered or duplicated.
C1_AllEventsFifo ==
    (state = "Running" /\ rxAlive) => consumed \o chan = PastEnqueue

\* C2: no lost wakeup.  Once the loop thread is back in the host loop and no
\* wake() call is in flight, a wake() call that began after the latest poll
\* started has left a wake marker in the loop, so that a further closure call
\* polls the task.
C2_NoLostWakeup ==
    (/\ unserved
     /\ state = "Running"
     /\ hostState = "running"
     /\ lpc = "idle"
     /\ AllIdle)
    => pending > 0

\* C3: wake() calls that overlap while will_poll is false and the loop runs
\* inject at most one wake marker each, and at least one in all.
C3_BatchInjects ==
    /\ batchInj <= batchCalls
    /\ (AllIdle /\ batchClean /\ batchCalls >= 1) => batchInj >= 1

\* Two overlapping calls have returned; one of them found the mutex held.
C3_Witness ==
    AllIdle /\ batchClean /\ batchCalls = 2 /\ batchInj = 1

\* C4: a wake() call that loads will_poll = true returns at once: it injects
\* nothing and touches neither the mutex nor anything else.
C4_SuppressedWakeNoEffect ==
    [][\A t \in Wakers :
         (wpc[t] = "load" /\ will_poll /\ wpc'[t] # "load")
         => /\ wpc'[t] = "idle"
            /\ UNCHANGED <<lock, pending, loopVars, chanVars, batchVars>>]_vars

\* The only wake() call so far began during a closure call that had not yet
\* polled, and has returned; no wake marker was sent.
C4_Witness ==
    /\ nWakeCalls = 1
    /\ AllIdle
    /\ unserved
    /\ lpc = "enqueue"
    /\ event # UserEvent
    /\ pending = 0
    /\ hostState = "running"

\* C5: when a poll reports completion the closure requests exit once, in that
\* call, and the state becomes Done; in Done no closure call enqueues an event
\* or polls the task, and exit is not requested again.
C5_DoneIsFinal ==
    /\ [](/\ exitReqs = (IF state = "Done" THEN 1 ELSE 0)
          /\ state = "Done" => lpc \in {"idle", "init"})
    /\ [][/\ exitReqs' # exitReqs
             => (lpc = "polling" /\ state = "Running" /\ state' = "Done"
                 /\ control_flow' = "Exit")
          /\ state = "Done"
             => (/\ state' = "Done"
                 /\ chan' = chan
                 /\ sendResult' = "none" \/ sendResult' = sendResult
                 /\ polledThisCb' => polledThisCb)]_vars

\* A closure call made after completion has returned.
C5_Witness ==
    /\ state = "Done"
    /\ lpc = "idle"
    /\ ~polledThisCb
    /\ event \in RealEvents
    /\ exitReqs = 1

\* C6: the callback is called exactly once, by the first closure call, in
\* State::Init, on the loop thread, before anything is enqueued and before
\* the task is polled.
C6_InitOnce ==
    /\ [](/\ initCalls = (IF state = "Init" THEN 0 ELSE 1)
          /\ state = "Init"
             => (/\ lpc \in {"idle", "init"}
                 /\ Len(delivered) <= 1
                 /\ lpc = "idle" => event = None
                 /\ chan = <<>> /\ consumed = <<>>
                 /\ sendResult = "none"
                 /\ ~polledThisCb /\ ~waker_out))
    /\ [][initCalls' # initCalls
          => (state = "Init" /\ lpc = "init" /\ wpc' = wpc)]_vars

\* Two closure calls have returned and the callback was called once.
C6_Witness ==
    /\ initCalls = 1
    /\ state = "Running"
    /\ lpc = "idle"
    /\ Len(delivered) = 2

\* C7: the wake marker is never in the channel.  A closure call with the wake
\* marker sends nothing, and, in State::Running, polls the task.
C7_MarkerNotForwarded ==
    /\ \A i \in 1..Len(chan) : chan[i] # UserEvent
    /\ \A i \in 1..Len(consumed) : consumed[i] # UserEvent
    /\ event = UserEvent => sendResult = "none"
    /\ (event = UserEvent /\ lpc = "idle" /\ state = "Running") => polledThisCb

\* A closure call with the wake marker has returned with an event queued.
C7_Witness ==
    /\ event = UserEvent
    /\ lpc = "idle"
    /\ state = "Running"
    /\ polledThisCb
    /\ chan # <<>>

\* C8: with the Receiver dropped in State::Running, try_send's Closed result
\* is ignored: the queue is as before, the closure does not panic, the state
\* stays Running, and the task is polled in that closure call.
C8_ClosedSendIgnored ==
    /\ [](sendResult = "Closed"
          => (/\ lpc \in {"clear", "polling", "idle"}
              /\ lpc \in {"clear", "polling"} => state = "Running"
              /\ lpc = "idle" => polledThisCb))
    /\ [][(sendResult' = "Closed" /\ sendResult # "Closed")
          => (/\ lpc = "enqueue" /\ ~rxAlive /\ state = "Running"
              /\ chan' = chan /\ state' = state /\ lpc' = "clear")]_vars

\* A closure call whose send found the channel closed has polled and returned
\* Pending.
C8_Witness ==
    /\ sendResult = "Closed"
    /\ lpc = "idle"
    /\ state = "Running"
    /\ polledThisCb

\* The position of the first CloseW in q, 0 when there is none.
FirstCloseW(q) ==
    IF \E i \in 1..Len(q) : q[i] = "CloseW"
      THEN CHOOSE i \in 1..Len(q) :
             q[i] = "CloseW" /\ \A j \in 1..(i - 1) : q[j] # "CloseW"
      ELSE 0

\* C9: the window task, fed owned events.  Whenever a closure call has
\* returned: if no CloseW was delivered, the task has seen every event in
\* order and exit was not requested; otherwise the task has seen the events up
\* to the first CloseW in order, it completed in the closure call that
\* delivered it, and exit was requested exactly once.
C9_WindowScenario ==
    (/\ taskKind = "window"
     /\ lpc = "idle"
     /\ \A i \in 1..Len(delivered) : delivered[i] # "ScaleFactorChanged")
    => IF FirstCloseW(delivered) = 0
         THEN /\ consumed = delivered
              /\ exitReqs = 0
              /\ state = (IF event = None THEN "Init" ELSE "Running")
         ELSE /\ consumed = SubSeq(delivered, 1, FirstCloseW(delivered))
              /\ exitReqs = 1
              /\ state = "Done"

\* The scenario of the spec: [Other, CloseX, CloseW].
C9_Witness ==
    /\ taskKind = "window"
    /\ lpc = "idle"
    /\ delivered = <<"Other", "CloseX", "CloseW">>
    /\ consumed = delivered
    /\ state = "Done"
    /\ exitReqs = 1

\* C10: from its first statement on, every closure call has the wait policy
\* at Wait until the poll returns, and it is still Wait when the closure
\* returns with the task suspended; the policy is never Poll once a closure
\* call has been made.
C10_WaitPolicy ==
    /\ lpc \in {"init", "enqueue", "clear", "polling"} => control_flow = "Wait"
    /\ (lpc = "idle" /\ state = "Running") => control_flow = "Wait"
    /\ event # None => control_flow \in {"Wait", "Exit"}

\* A closure call has polled the task, which suspended.
C10_Witness ==
    /\ lpc = "idle"
    /\ state = "Running"
    /\ polledThisCb
    /\ control_flow = "Wait"

\* C11: the stream ends only once the Sender is dropped.  The Sender lives
\* exactly as long as State::Running, also after LoopDestroyed was delivered,
\* so no pull reports the end of the stream in Running, and a pull on the
\* empty queue leaves the task registered for a wake.
C11_NoEndWhileRunning ==
    /\ txAlive <=> state = "Running"
    /\ eos => ~txAlive
    /\ state = "Running" => ~eos

\* After LoopDestroyed, in Running, the task pulled on the empty queue and
\* suspended.
C11_Witness ==
    /\ state = "Running"
    /\ event = LoopDestroyed
    /\ lpc = "idle"
    /\ polledThisCb
    /\ chan = <<>>
    /\ listener
    /\ ~eos

\* C12: wake() never waits.  Whatever the other threads do, a thread inside
\* wake() can take its next step, each step brings it nearer to its return
\* (load, try_lock, send_event, drop of the guard), and the loop thread inside
\* the closure can always take its next step too.
C12_WakeNeverWaits ==
    /\ [](/\ \A t \in Wakers :
               wpc[t] \in {"load", "trylock", "send", "unlock"}
               => ENABLED (\/ WakeLoad(t) \/ WakeTryLock(t)
                           \/ WakeSend(t) \/ WakeUnlock(t))
          /\ lpc \in {"init", "enqueue", "clear"}
             => ENABLED (CbInit \/ CbEnqueue \/ PollStart))
    /\ [][\A t \in Wakers :
            wpc'[t] # wpc[t]
            => \/ wpc[t] = "idle" /\ wpc'[t] = "load"
               \/ wpc[t] = "load" /\ wpc'[t] \in {"trylock", "idle"}
               \/ wpc[t] = "trylock" /\ wpc'[t] \in {"send", "idle"}
               \/ wpc[t] = "send" /\ wpc'[t] = "unlock"
               \/ wpc[t] = "unlock" /\ wpc'[t] = "idle"]_vars

\* One thread is at try_lock while the other holds the mutex, and the loop
\* thread is inside the closure.
C12_Witness ==
    /\ \E t \in Wakers : wpc[t] = "trylock" /\ lock # {} /\ t \notin lock
    /\ lpc \in {"init", "enqueue", "clear"}

\* C13: in State::Done every step of a closure call leaves the state, the
\* channel, will_poll and the wait policy as they are.
C13_DoneCallbackNoOp ==
    [][state = "Done"
       => (/\ state' = state
           /\ chan' = chan
           /\ will_poll' = will_poll
           /\ control_flow' = control_flow)]_vars

\* C14 as stated: will_poll is true from the entry of a closure call until
\* its poll, and false exactly while the poll is executing.
C14_FalseIffPolling ==
    /\ lpc \in {"init", "enqueue", "clear"} => will_poll
    /\ ~will_poll <=> lpc = "polling"

\* C14: will_poll is true from the entry of a closure call until its poll,
\* false while the poll is executing, and between closure calls it is false
\* unless the last call returned without polling; it is false before the
\* first call.
C14_WillPollWindow ==
    /\ lpc \in {"init", "enqueue", "clear", "panicked"} => will_poll
    /\ lpc = "polling" => ~will_poll
    /\ lpc = "idle" => (will_poll <=> (event # None /\ ~polledThisCb))
    /\ (lpc = "idle" /\ state # "Done") => ~will_poll

\* Between two closure calls in Running, with a wake() call made, will_poll
\* is false.
C14_Witness ==
    /\ lpc = "idle"
    /\ state = "Running"
    /\ polledThisCb
    /\ ~will_poll
    /\ nWakeCalls = 1

\* C15: a closure call that reaches its poll step outside State::Done polls
\* the task once, after its enqueue step, whatever the event.  The task is
\* polled by the loop thread inside a closure call only, by no step of a
\* wake() thread, and not while the enqueue step or another poll is running.
C15_OnePollPerCallback ==
    /\ [](/\ lpc \in {"init", "enqueue", "clear"} => ~polledThisCb
          /\ lpc = "polling" => (polledThisCb /\ state = "Running")
          /\ (lpc = "idle" /\ state = "Running") => polledThisCb)
    /\ [][/\ (polledThisCb' /\ ~polledThisCb)
             => (/\ lpc = "clear" /\ lpc' = "polling"
                 /\ state = "Running"
                 /\ wpc' = wpc /\ chan' = chan)
          /\ (lpc' = "polling" /\ lpc # "polling") => lpc = "clear"
          /\ (lpc' = "clear" /\ lpc # "clear") => lpc = "enqueue"
          /\ (lpc = "polling" /\ lpc' # "polling") => lpc' = "idle"]_vars

\* A poll is running in a closure call made with the wake marker, while a
\* wake() call holds the mutex.
C15_Witness ==
    /\ lpc = "polling"
    /\ event = UserEvent
    /\ polledThisCb
    /\ \E t \in Wakers : wpc[t] = "send"

\* C16: the state changes only from Init to Running, in the first closure
\* call and whatever its event, and from Running to Done, when a poll returns
\* Ready.  Nothing leaves Done and nothing returns to Init.
C16_StateTransitions ==
    /\ [](/\ state \in {"Init", "Running", "Done"}
          /\ (event # None /\ lpc # "init") => state # "Init"
          /\ state = "Init" => Len(delivered) <= 1)
    /\ [][state' # state
          => \/ state = "Init" /\ state' = "Running" /\ lpc = "init"
             \/ /\ state = "Running" /\ state' = "Done"
                /\ lpc = "polling" /\ lpc' = "idle"]_vars

\* The three states were passed through and a later closure call has
\* returned.
C16_Witness ==
    /\ state = "Done"
    /\ lpc = "idle"
    /\ event = LoopDestroyed
    /\ ~polledThisCb
    /\ initCalls = 1

\* C17: will_poll is false during the poll, so a wake() call made then goes
\* on to try_lock; with the mutex free it takes it, and with the loop running
\* it sends one wake marker, which the host loop can deliver in a further
\* closure call once this one has returned.
C17_WakeDuringPollInjects ==
    /\ [](/\ lpc = "polling" => ~will_poll
          /\ (pending > 0 /\ lpc = "idle" /\ hostState = "running")
             => ENABLED HostDeliverWake)
    /\ [][\A t \in Wakers :
            /\ (/\ lpc = "polling" /\ lpc' = "polling"
                /\ wpc[t] = "load" /\ wpc'[t] # "load")
               => wpc'[t] = "trylock"
            /\ (wpc[t] = "trylock" /\ wpc'[t] # "trylock" /\ lock = {})
               => (wpc'[t] = "send" /\ lock' = {t})
            /\ (wpc[t] = "send" /\ wpc'[t] # "send" /\ hostState = "running")
               => pending' = pending + 1]_vars

\* The only wake() call began during the poll that is still running, and has
\* returned after sending its marker.
C17_Witness ==
    /\ lpc = "polling"
    /\ unserved
    /\ nWakeCalls = 1
    /\ AllIdle
    /\ pending = 1

\* C18: with the host loop closed, send_event fails and wake() goes on: it
\* drops the guard and returns, and neither the closure's state, nor the
\* channel, nor the pending wake markers change.
C18_WakeAfterShutdown ==
    [][\A t \in Wakers :
         /\ (wpc[t] = "send" /\ wpc'[t] # "send" /\ ~HostAlive)
            => (/\ wpc'[t] = "unlock"
                /\ UNCHANGED <<pending, lock, loopVars, chanVars>>)
         /\ (wpc[t] = "unlock" /\ wpc'[t] # "unlock")
            => (/\ wpc'[t] = "idle"
                /\ lock' = lock \ {t}
                /\ UNCHANGED <<pending, loopVars, chanVars>>)]_vars

\* The only wake() call began after the last poll, and is past a send_event
\* made on the closed loop: no marker is pending.
C18_Witness ==
    /\ hostState = "closed"
    /\ state = "Running"
    /\ unserved
    /\ nWakeCalls = 1
    /\ pending = 0
    /\ \E t \in Wakers : wpc[t] = "unlock"

\* C19: a wake() call that reaches try_lock on the poisoned mutex panics: it
\* sends no marker, does not take the mutex and never returns.
C19_PoisonedIsFatal ==
    [][\A t \in Wakers :
         /\ (wpc[t] = "trylock" /\ wpc'[t] # "trylock" /\ poisoned)
            => (/\ wpc'[t] = "panicked"
                /\ UNCHANGED <<pending, lock, poisoned>>)
         /\ wpc[t] = "panicked" => wpc'[t] = "panicked"]_vars

\* A holder of the mutex panicked, and a later wake() call panicked at
\* try_lock.
C19_Witness ==
    /\ poisoned
    /\ lock = {}
    /\ nWakeCalls = 2
    /\ \A t \in Wakers : wpc[t] = "panicked"

\* C20: a closure call in Running with an event that has no owned form
\* panics at the enqueue step: the event is not in the channel, the task is
\* not polled in that call, will_poll is still true, and the call does not get
\* past the enqueue step.
C20_UnconvertibleIsFatal ==
    /\ lpc = "panicked"
       => (/\ event = "ScaleFactorChanged"
           /\ state = "Running"
           /\ will_poll
           /\ ~polledThisCb
           /\ sendResult = "none"
           /\ hostState = "closed"
           /\ rxAlive
              => consumed \o chan = SubSeq(delivered, 1, Len(delivered) - 1))
    /\ (event = "ScaleFactorChanged" /\ state = "Running")
       => lpc \in {"init", "enqueue", "panicked"}

\* The second event had no owned form; the first one is still queued.
C20_Witness ==
    /\ lpc = "panicked"
    /\ Len(delivered) = 2
    /\ chan # <<>>
    /\ nWakeCalls = 1

====
